---- MODULE Spec2Model ----
(***************************************************************************)
(* The POST /api/process-image handler of src/server.js: an image is       *)
(* forwarded to the Gemini generateContent endpoint and the generated text *)
(* is cleaned of markdown fences, parsed as JSON and sent back.            *)
(*                                                                         *)
(* Text is a sequence of one-character strings.  Fixed message text of the *)
(* source is kept as one atom (a multi-character string) per literal, so a *)
(* message is a sequence of atoms and characters.                          *)
(***************************************************************************)
EXTENDS Integers, Sequences, FiniteSets, TLC

VARIABLES
  env,             \* process.env
  pc,              \* where each request's handler stands
  reqBody,         \* req.body of each request
  upstreamCalls,   \* the fetch calls each request has made
  upstreamStatus,  \* response.status of the upstream response, once there
  upstreamJson,    \* what response.json() resolved with, once there
  fetchError,      \* the message fetch or response.json() rejected with
  cleaned,         \* the handler's cleanJson, once computed
  responses        \* the responses each request has been sent

vars == <<env, pc, reqBody, upstreamCalls, upstreamStatus, upstreamJson,
          fetchError, cleaned, responses>>

(***************************************************************************)
(* JavaScript values                                                       *)
(***************************************************************************)

\* The JavaScript value undefined, where a string is expected.
Undefined == <<"undefined">>

\* JavaScript truthiness of a string-or-undefined: neither undefined nor "".
Truthy(s) == s /= Undefined /\ s /= <<>>

\* a || b on strings-or-undefined
Or(a, b) == IF Truthy(a) THEN a ELSE b

(***************************************************************************)
(* String.prototype.trim and String.prototype.replace(/pat/g, '')          *)
(***************************************************************************)

\* The white space of the modelled alphabet: trim() and JSON agree on it.
WhiteSpace == {" ", "\n", "\t", "\r"}

RECURSIVE TrimStart(_)
TrimStart(s) ==
  IF s /= <<>> /\ Head(s) \in WhiteSpace THEN TrimStart(Tail(s)) ELSE s

RECURSIVE TrimEnd(_)
TrimEnd(s) ==
  IF s /= <<>> /\ s[Len(s)] \in WhiteSpace
  THEN TrimEnd(SubSeq(s, 1, Len(s) - 1))
  ELSE s

Trim(s) == TrimEnd(TrimStart(s))

\* pat occurs in s at position i
MatchAt(s, i, pat) ==
  /\ i + Len(pat) - 1 <= Len(s)
  /\ \A k \in 1..Len(pat) : s[i + k - 1] = pat[k]

\* s.replace(/pat/g, ''): the matches are found left to right in s itself and
\* do not overlap; what a removal joins is not scanned again.  From position
\* i the text up to the next match is kept and the scan goes on after it.
RECURSIVE RemoveAllFrom(_, _, _)
RemoveAllFrom(s, i, pat) ==
  LET matches == {j \in i..Len(s) : MatchAt(s, j, pat)}
      next == CHOOSE j \in matches : \A k \in matches : j <= k
  IN  IF matches = {} THEN SubSeq(s, i, Len(s))
      ELSE SubSeq(s, i, next - 1) \o RemoveAllFrom(s, next + Len(pat), pat)

RemoveAll(s, pat) == RemoveAllFrom(s, 1, pat)

\* The backquote character U+0060, which a TLA+ string cannot hold.
BQ == "BACKQUOTE"

FenceJson == <<BQ, BQ, BQ, "j", "s", "o", "n">>
Fence == <<BQ, BQ, BQ>>

\* const rawText = json.candidates[0].content.parts[0].text.trim();
rawText(text) == Trim(text)

\* The cleanup without its second replace: only the json fence is removed.
cleanJsonFirstReplaceOnly(raw) == Trim(RemoveAll(raw, FenceJson))

\* const cleanJson = rawText.replace(/FenceJson/g, '').replace(/Fence/g, '').trim();
cleanJson(raw) == Trim(RemoveAll(RemoveAll(raw, FenceJson), Fence))

(***************************************************************************)
(* JSON values, JSON.parse and JSON.stringify                              *)
(*                                                                         *)
(* A value is a record [t, v]: t its type, v its content.  Of the JSON     *)
(* grammar the parser leaves out what the modelled alphabet cannot spell:  *)
(* backslash escapes in strings, fractions and exponents in numbers.       *)
(***************************************************************************)

JArray(elems) == [t |-> "array", v |-> elems]
JObject(members) == [t |-> "object", v |-> members]
JString(chars) == [t |-> "string", v |-> chars]
JNumber(n) == [t |-> "number", v |-> n]
JBool(b) == [t |-> "boolean", v |-> b]
JNull == [t |-> "null", v |-> 0]
JUndefined == [t |-> "undefined", v |-> 0]

DQ == "\""
Digits == {"0", "1", "2", "3", "4", "5", "6", "7", "8", "9"}

DigitVal(c) ==
  CASE c = "0" -> 0 [] c = "1" -> 1 [] c = "2" -> 2 [] c = "3" -> 3
    [] c = "4" -> 4 [] c = "5" -> 5 [] c = "6" -> 6 [] c = "7" -> 7
    [] c = "8" -> 8 [] c = "9" -> 9

DigitChar(d) ==
  CASE d = 0 -> "0" [] d = 1 -> "1" [] d = 2 -> "2" [] d = 3 -> "3"
    [] d = 4 -> "4" [] d = 5 -> "5" [] d = 6 -> "6" [] d = 7 -> "7"
    [] d = 8 -> "8" [] d = 9 -> "9"

\* A failed parse: JSON.parse throws SyntaxError.
ParseFail == [ok |-> FALSE, val |-> JUndefined, pos |-> 0]
ParseOk(val, pos) == [ok |-> TRUE, val |-> val, pos |-> pos]

At(s, i) == IF i >= 1 /\ i <= Len(s) THEN s[i] ELSE "EOF"

RECURSIVE SkipWs(_, _)
SkipWs(s, i) == IF At(s, i) \in WhiteSpace THEN SkipWs(s, i + 1) ELSE i

\* The characters of a string after its opening quote, up to the closing one.
\* A raw control character inside a string is a syntax error.
RECURSIVE ParseChars(_, _, _)
ParseChars(s, i, acc) ==
  IF i > Len(s) THEN ParseFail
  ELSE IF s[i] = DQ THEN ParseOk(JString(acc), i + 1)
  ELSE IF s[i] \in {"\n", "\t", "\r", "\\"} THEN ParseFail
  ELSE ParseChars(s, i + 1, Append(acc, s[i]))

RECURSIVE ParseDigits(_, _, _)
ParseDigits(s, i, acc) ==
  IF At(s, i) \in Digits
  THEN ParseDigits(s, i + 1, 10 * acc + DigitVal(s[i]))
  ELSE ParseOk(JNumber(acc), i)

\* -? ( 0 | [1-9][0-9]* )
ParseNumber(s, i) ==
  LET neg == At(s, i) = "-"
      j == IF neg THEN i + 1 ELSE i
      r == IF At(s, j) = "0" THEN ParseOk(JNumber(0), j + 1)
           ELSE IF At(s, j) \in Digits THEN ParseDigits(s, j, 0)
           ELSE ParseFail
  IN  IF r.ok /\ neg THEN ParseOk(JNumber(0 - r.val.v), r.pos) ELSE r

\* An object keeps a key once, at its first position, with its last value.
PutMember(members, k, val) ==
  IF \E i \in 1..Len(members) : members[i].k = k
  THEN [i \in 1..Len(members) |->
          IF members[i].k = k THEN [k |-> k, val |-> val] ELSE members[i]]
  ELSE Append(members, [k |-> k, val |-> val])

RECURSIVE ParseValue(_, _)
RECURSIVE ParseElements(_, _, _)
RECURSIVE ParseMembers(_, _, _)

\* value (ws , ws value)* ws ]
ParseElements(s, i, acc) ==
  LET e == ParseValue(s, i)
      k == SkipWs(s, e.pos)
  IN  IF ~e.ok THEN ParseFail
      ELSE IF At(s, k) = "," THEN ParseElements(s, k + 1, Append(acc, e.val))
      ELSE IF At(s, k) = "]" THEN ParseOk(JArray(Append(acc, e.val)), k + 1)
      ELSE ParseFail

\* ws string ws : value (ws , member)* ws }
ParseMembers(s, i, acc) ==
  LET j == SkipWs(s, i)
      key == IF At(s, j) = DQ THEN ParseChars(s, j + 1, <<>>) ELSE ParseFail
      c == SkipWs(s, key.pos)
      e == IF key.ok /\ At(s, c) = ":" THEN ParseValue(s, c + 1) ELSE ParseFail
      k == SkipWs(s, e.pos)
      put == PutMember(acc, key.val.v, e.val)
  IN  IF ~e.ok THEN ParseFail
      ELSE IF At(s, k) = "," THEN ParseMembers(s, k + 1, put)
      ELSE IF At(s, k) = "}" THEN ParseOk(JObject(put), k + 1)
      ELSE ParseFail

ParseValue(s, i) ==
  LET j == SkipWs(s, i)
      c == At(s, j)
  IN  IF c = "[" THEN
        IF At(s, SkipWs(s, j + 1)) = "]"
        THEN ParseOk(JArray(<<>>), SkipWs(s, j + 1) + 1)
        ELSE ParseElements(s, j + 1, <<>>)
      ELSE IF c = "{" THEN
        IF At(s, SkipWs(s, j + 1)) = "}"
        THEN ParseOk(JObject(<<>>), SkipWs(s, j + 1) + 1)
        ELSE ParseMembers(s, j + 1, <<>>)
      ELSE IF c = DQ THEN ParseChars(s, j + 1, <<>>)
      ELSE IF c \in Digits \cup {"-"} THEN ParseNumber(s, j)
      ELSE IF MatchAt(s, j, <<"t", "r", "u", "e">>)
        THEN ParseOk(JBool(TRUE), j + 4)
      ELSE IF MatchAt(s, j, <<"f", "a", "l", "s", "e">>)
        THEN ParseOk(JBool(FALSE), j + 5)
      ELSE IF MatchAt(s, j, <<"n", "u", "l", "l">>)
        THEN ParseOk(JNull, j + 4)
      ELSE ParseFail

\* JSON.parse(s): one value with white space around it and nothing else;
\* ok = FALSE stands for the SyntaxError it throws.
JSONparse(s) ==
  LET r == ParseValue(s, 1)
  IN  IF r.ok /\ SkipWs(s, r.pos) > Len(s) THEN r ELSE ParseFail

RECURSIVE NatChars(_)
NatChars(n) ==
  IF n < 10 THEN <<DigitChar(n)>>
  ELSE NatChars(n \div 10) \o <<DigitChar(n % 10)>>

RECURSIVE JSONstringify(_)
RECURSIVE JoinElements(_, _)
RECURSIVE JoinMembers(_, _)

JoinElements(elems, i) ==
  IF i > Len(elems) THEN <<>>
  ELSE (IF i > 1 THEN <<",">> ELSE <<>>)
       \o JSONstringify(elems[i]) \o JoinElements(elems, i + 1)

JoinMembers(members, i) ==
  IF i > Len(members) THEN <<>>
  ELSE (IF i > 1 THEN <<",">> ELSE <<>>)
       \o <<DQ>> \o members[i].k \o <<DQ, ":">>
       \o JSONstringify(members[i].val) \o JoinMembers(members, i + 1)

\* JSON.stringify(val), which res.json(val) puts on the wire.
JSONstringify(val) ==
  CASE val.t = "array" -> <<"[">> \o JoinElements(val.v, 1) \o <<"]">>
    [] val.t = "object" -> <<"{">> \o JoinMembers(val.v, 1) \o <<"}">>
    [] val.t = "string" -> <<DQ>> \o val.v \o <<DQ>>
    [] val.t = "number" ->
         IF val.v < 0 THEN <<"-">> \o NatChars(0 - val.v) ELSE NatChars(val.v)
    [] val.t = "boolean" ->
         IF val.v THEN <<"t", "r", "u", "e">> ELSE <<"f", "a", "l", "s", "e">>
    [] val.t = "null" -> <<"n", "u", "l", "l">>

(***************************************************************************)
(* The handler of POST /api/process-image                                  *)
(***************************************************************************)

\* const API_KEY = process.env.GEMINI_API_KEY || process.env.GOOGLE_API_KEY;
API_KEY(e) == Or(e.GEMINI_API_KEY, e.GOOGLE_API_KEY)

\* The check as a test for unset variables instead of falsy ones.
ApiKeyMissingUnsetOnly(e) ==
  e.GEMINI_API_KEY = Undefined /\ e.GOOGLE_API_KEY = Undefined

\* if (!API_KEY) { ... throw ... }
ApiKeyMissing(e) == ~Truthy(API_KEY(e))

\* The generateContent URL, the key its query parameter.
apiURL(key) ==
  <<"https://generativelanguage.googleapis.com/v1beta/models/gemini-1.5-pro:generateContent?key=">>
  \o key

\* The fetch call: its URL and the inline_data part of its body.
FetchCall(key, body) ==
  [url |-> apiURL(key), mime_type |-> body.mediaType, data |-> body.imageData]

\* res.json(parsed)
JsonResponse(parsed) ==
  [status |-> 200, kind |-> "value", value |-> parsed,
   error |-> Undefined, raw |-> Undefined, note |-> Undefined]

\* The parse failure left to the outer catch: a 500 without the text.
ParseErrorResponseGeneric(clean) ==
  [status |-> 500, kind |-> "error", value |-> JUndefined,
   error |-> <<"Unexpected token o in JSON at position 1">>,
   raw |-> Undefined, note |-> Undefined]

\* return res.status(400).json({ error: "Error al parsear ...", raw: cleanJson })
ParseErrorResponse(clean) ==
  [status |-> 400, kind |-> "error", value |-> JUndefined,
   error |-> <<"Error al parsear respuesta del modelo">>,
   raw |-> clean, note |-> Undefined]

\* catch (error) { res.status(500).json({ error: error.message, note: ... }) }
CatchResponse(message) ==
  [status |-> 500, kind |-> "error", value |-> JUndefined,
   error |-> message, raw |-> Undefined,
   note |-> <<"Verifica que la API key esté configurada en Vercel Environment Variables">>]

\* throw new Error('API key no esta configurada. ...')
MissingKeyMessage ==
  <<"API key no está configurada. Verifica las variables de entorno en Vercel.">>

\* The checks of the reply between response.json() and the text: the message
\* of the Error thrown by the first check that fails, Undefined when all pass.
ReplyError(json) ==
  IF json.error.present
    THEN <<"API Error: ">> \o Or(json.error.message, <<"Unknown error">>)
  ELSE IF ~json.candidates.present \/ json.candidates.list = <<>>
    THEN <<"Respuesta inválida del modelo. Verifica los logs para más detalles.">>
  ELSE IF json.promptFeedback.present /\ Truthy(json.promptFeedback.blockReason)
    THEN <<"Contenido bloqueado por seguridad: ">> \o json.promptFeedback.blockReason
  ELSE IF json.candidates.list[1].finishReason \in {"SAFETY", "RECITATION"}
    THEN <<"Contenido filtrado por: ", json.candidates.list[1].finishReason>>
  ELSE IF json.candidates.list[1].text = Undefined
    THEN <<"Cannot read properties of undefined (reading 'trim')">>
  ELSE Undefined

\* JSON.parse(cleanJson) in its own try, then parsed.length and res.json(parsed).
\* parsed.length throws on null; every other value has or lacks a length quietly.
ParseAndRespond(clean) ==
  LET parsed == JSONparse(clean)
  IN  IF ~parsed.ok THEN ParseErrorResponse(clean)
      ELSE IF parsed.val.t = "null"
        THEN CatchResponse(<<"Cannot read properties of null (reading 'length')">>)
      ELSE JsonResponse(parsed.val)

\* The handler from the reply's arrival to its response.
HandleReply(json) ==
  IF ReplyError(json) /= Undefined THEN CatchResponse(ReplyError(json))
  ELSE ParseAndRespond(cleanJson(rawText(json.candidates.list[1].text)))

(***************************************************************************)
(* node-fetch, as the handler sees it                                      *)
(***************************************************************************)

\* The message of the FetchError a failed request rejects with: node-fetch
\* names the request URL in it.
FetchFailureReasons == {"connect ECONNREFUSED", "getaddrinfo ENOTFOUND"}

FetchFailureMessage(url, reason) ==
  <<"request to ">> \o url \o <<" failed, reason: ", reason>>

\* The message response.json() rejects with on a body that is not JSON:
\* node-fetch 2 names the URL, node-fetch 3 throws the SyntaxError itself.
NodeFetchVersions == {"node-fetch 2", "node-fetch 3"}

JsonFailureMessage(url, version) ==
  IF version = "node-fetch 2"
  THEN <<"invalid json response body at ">> \o url
         \o <<" reason: Unexpected token < in JSON at position 0">>
  ELSE <<"Unexpected token < in JSON at position 0">>

(***************************************************************************)
(* Inputs: configuration, request bodies and upstream replies              *)
(***************************************************************************)

Key1 == <<"A", "I", "z", "a">>
Key2 == <<"G", "0", "0", "g">>
KeyValues == {Key1, Key2}

\* process.env: a variable is unset, set to the empty string or set to a key.
Envs ==
  [GEMINI_API_KEY : {Undefined, <<>>, Key1}, GOOGLE_API_KEY : {Undefined, Key2}]

\* req.body: imageData absent, empty or present; mediaType absent or present.
Bodies ==
  [imageData : {Undefined, <<>>, <<"i", "V", "B", "O">>},
   mediaType : {Undefined, <<"image/png">>}]

NoBody == [imageData |-> Undefined, mediaType |-> Undefined]

\* The HTTP status of the upstream response.
UpstreamStatuses == {"200", "403", "503"}
SuccessStatuses == {"200"}

\* Patient records and other elements a generated array may hold; the last
\* one is a string with a fence inside it.
Patient1 ==
  JObject(<<[k |-> <<"N", "O", "M", "B", "R", "E">>, val |-> JString(<<"A", "N", "A">>)],
            [k |-> <<"E", "D", "A", "D">>, val |-> JString(<<"4", "0">>)]>>)
Patient2 ==
  JObject(<<[k |-> <<"N", "O", "M", "B", "R", "E">>, val |-> JString(<<"L", "U", "I", "S", " ", "P">>)],
            [k |-> <<"E", "D", "A", "D">>, val |-> JString(<<"7">>)]>>)
PlainElements == {Patient1, Patient2, JNumber(12), JNull}
FencedString == JString(<<"a", BQ, BQ, BQ, "b">>)
Elements == PlainElements \cup {FencedString}

\* The longest generated array.
MaxPatients == 2

ArraysOf(elems) == {JArray(a) : a \in UNION {[1..n -> elems] : n \in 0..MaxPatients}}

\* How the model wraps its JSON text: not at all, in a json fence, in a bare
\* fence, in white space.
Wrappers == {"plain", "jsonfence", "fence", "space"}

Wrap(w, t) ==
  CASE w = "plain" -> t
    [] w = "jsonfence" -> FenceJson \o <<"\n">> \o t \o <<"\n">> \o Fence
    [] w = "fence" -> Fence \o <<"\n">> \o t \o <<"\n">> \o Fence \o <<"\n">>
    [] w = "space" -> <<" ", "\n">> \o t \o <<"\n", " ">>

ArrayTexts == {Wrap(w, JSONstringify(a)) : w \in Wrappers, a \in ArraysOf(Elements)}

NotJson == <<"n", "o", "t", " ", "j", "s", "o", "n">>

\* Generated texts that are no array: no JSON at all, broken JSON, and JSON
\* values of every other type.
OtherTexts ==
  { NotJson, <<>>, Wrap("jsonfence", NotJson),
    <<"[", "1", "2", ",", "]">>, <<"[", "1", "2">>, <<"0", "1">>,
    <<"{", "}">>, JSONstringify(Patient1), Wrap("jsonfence", JSONstringify(Patient2)),
    <<"1", "2">>, <<DQ, "A", "N", "A", DQ>>,
    <<"t", "r", "u", "e">>, <<"f", "a", "l", "s", "e">>, <<"n", "u", "l", "l">> }

Candidate(finishReason, text) == [finishReason |-> finishReason, text |-> text]

\* The reply of generateContent after response.json(): { error?, candidates?,
\* promptFeedback? }, candidates[0] with finishReason and content.parts[0].text.
Reply(error, candidates, promptFeedback) ==
  [error |-> error, candidates |-> candidates, promptFeedback |-> promptFeedback]

NoError == [present |-> FALSE, message |-> Undefined]
NoFeedback == [present |-> FALSE, blockReason |-> Undefined]

ReplyErrors ==
  { NoError,
    [present |-> TRUE, message |-> <<"API key not valid. Please pass a valid API key.">>],
    [present |-> TRUE, message |-> Undefined] }

ReplyFeedbacks ==
  { NoFeedback,
    [present |-> TRUE, blockReason |-> Undefined],
    [present |-> TRUE, blockReason |-> <<"SAFETY">>],
    [present |-> TRUE, blockReason |-> <<"OTHER">>] }

FinishReasons == {"STOP", "MAX_TOKENS", "SAFETY", "RECITATION"}

CandidateLists(texts) ==
  { [present |-> FALSE, list |-> <<>>], [present |-> TRUE, list |-> <<>>] }
  \cup { [present |-> TRUE, list |-> <<Candidate(f, t)>>] :
           f \in FinishReasons, t \in texts }

CleanReply(text) ==
  Reply(NoError, [present |-> TRUE, list |-> <<Candidate("STOP", text)>>], NoFeedback)

\* Every shape of reply with a few texts, and the clean reply with every text.
Replies ==
  { Reply(e, c, f) : e \in ReplyErrors, f \in ReplyFeedbacks,
      c \in CandidateLists({Undefined, NotJson, <<"[", "]">>}) }
  \cup { CleanReply(t) : t \in ArrayTexts \cup OtherTexts }

(***************************************************************************)
(* The requests                                                            *)
(***************************************************************************)

Reqs == {"r1"}

\* No request has arrived yet.
NoRequests ==
  /\ pc = [r \in Reqs |-> "idle"]
  /\ reqBody = [r \in Reqs |-> NoBody]
  /\ upstreamCalls = [r \in Reqs |-> <<>>]
  /\ upstreamStatus = [r \in Reqs |-> <<>>]
  /\ upstreamJson = [r \in Reqs |-> <<>>]
  /\ fetchError = [r \in Reqs |-> Undefined]
  /\ cleaned = [r \in Reqs |-> Undefined]
  /\ responses = [r \in Reqs |-> <<>>]

Init == env \in Envs /\ NoRequests

\* The error lands in the handler's catch, which answers 500.
Catch(r, message) ==
  /\ responses' = [responses EXCEPT ![r] = Append(@, CatchResponse(message))]
  /\ pc' = [pc EXCEPT ![r] = "done"]

\* The request arrives and the handler runs to its first await: without a key
\* it throws, with one it calls fetch.
Receive(r, body) ==
  /\ pc[r] = "idle"
  /\ reqBody' = [reqBody EXCEPT ![r] = body]
  /\ IF ApiKeyMissing(env)
     THEN /\ Catch(r, MissingKeyMessage)
          /\ UNCHANGED upstreamCalls
     ELSE /\ upstreamCalls' =
               [upstreamCalls EXCEPT ![r] = Append(@, FetchCall(API_KEY(env), body))]
          /\ pc' = [pc EXCEPT ![r] = "fetch"]
          /\ UNCHANGED responses
  /\ UNCHANGED <<env, upstreamStatus, upstreamJson, fetchError, cleaned>>

\* A transport failure answered by calling fetch again.
FetchRejectsRetry(r, reason) ==
  /\ pc[r] = "fetch"
  /\ Len(upstreamCalls[r]) < 3
  /\ upstreamCalls' =
       [upstreamCalls EXCEPT ![r] = Append(@, FetchCall(API_KEY(env), reqBody[r]))]
  /\ UNCHANGED <<env, pc, reqBody, upstreamStatus, upstreamJson, fetchError,
                 cleaned, responses>>

\* await fetch(...) rejects: a transport failure.
FetchRejects(r, reason) ==
  /\ pc[r] = "fetch"
  /\ LET message == FetchFailureMessage(upstreamCalls[r][1].url, reason)
     IN  /\ fetchError' = [fetchError EXCEPT ![r] = message]
         /\ Catch(r, message)
  /\ UNCHANGED <<env, reqBody, upstreamCalls, upstreamStatus, upstreamJson, cleaned>>

\* await fetch(...) resolves with a response of any status; the handler goes
\* on to await response.json() without looking at the status.
FetchResolves(r, status) ==
  /\ pc[r] = "fetch"
  /\ upstreamStatus' = [upstreamStatus EXCEPT ![r] = <<status>>]
  /\ pc' = [pc EXCEPT ![r] = "json"]
  /\ UNCHANGED <<env, reqBody, upstreamCalls, upstreamJson, fetchError, cleaned,
               responses>>

\* await response.json() rejects: the body is not JSON.
JsonRejects(r, version) ==
  /\ pc[r] = "json"
  /\ LET message == JsonFailureMessage(upstreamCalls[r][1].url, version)
     IN  /\ fetchError' = [fetchError EXCEPT ![r] = message]
         /\ Catch(r, message)
  /\ UNCHANGED <<env, reqBody, upstreamCalls, upstreamStatus, upstreamJson, cleaned>>

\* The parse-error branch without its return: the 400 is sent, the handler
\* goes on to parsed.length with parsed undefined, and the outer catch sends
\* a 500 after it.
RespondFallThrough(json) ==
  IF HandleReply(json).status = 400
  THEN <<HandleReply(json),
         CatchResponse(<<"Cannot read properties of undefined (reading 'length')">>)>>
  ELSE <<HandleReply(json)>>

\* The responses the handler sends once the reply is there: each path ends at
\* one res.json call (the return at the 400, the end of the try at the 200,
\* the catch at the 500).
Respond(json) == <<HandleReply(json)>>

\* await response.json() resolves and the handler runs to its response.
JsonResolves(r, json) ==
  /\ pc[r] = "json"
  /\ upstreamJson' = [upstreamJson EXCEPT ![r] = <<json>>]
  /\ cleaned' = [cleaned EXCEPT ![r] =
                   IF ReplyError(json) = Undefined
                   THEN cleanJson(rawText(json.candidates.list[1].text))
                   ELSE Undefined]
  /\ responses' = [responses EXCEPT ![r] = @ \o Respond(json)]
  /\ pc' = [pc EXCEPT ![r] = "done"]
  /\ UNCHANGED <<env, reqBody, upstreamCalls, upstreamStatus, fetchError>>

Next ==
  \E r \in Reqs :
    \/ \E body \in Bodies : Receive(r, body)
    \/ \E reason \in FetchFailureReasons : FetchRejects(r, reason)
    \/ \E status \in UpstreamStatuses : FetchResolves(r, status)
    \/ \E json \in Replies : JsonResolves(r, json)
    \/ \E version \in NodeFetchVersions : JsonRejects(r, version)

Spec == Init /\ [][Next]_vars

(***************************************************************************)
(* The handler on generated texts made of fences and fragments of fences   *)
(***************************************************************************)

StripPieces ==
  { <<BQ>>, <<BQ, BQ>>, FenceJson, <<"j", "s", "o", "n">>, <<"j">>,
    <<"s", "o", "n">>, <<" ">>, <<"[", "]">> }

\* The most pieces a generated text is made of.
MaxPieces == 4

RECURSIVE Concat(_, _)
Concat(pieces, i) ==
  IF i > Len(pieces) THEN <<>> ELSE pieces[i] \o Concat(pieces, i + 1)

StripTexts ==
  {Concat(p, 1) : p \in UNION {[1..n -> StripPieces] : n \in 0..MaxPieces}}

StripEnv == [GEMINI_API_KEY |-> Key1, GOOGLE_API_KEY |-> Undefined]
StripBody == [imageData |-> <<"i", "V", "B", "O">>, mediaType |-> <<"image/png">>]

InitStrip == env = StripEnv /\ NoRequests

NextStrip ==
  \E r \in Reqs :
    \/ Receive(r, StripBody)
    \/ FetchResolves(r, "200")
    \/ \E t \in StripTexts : JsonResolves(r, CleanReply(t))

SpecStrip == InitStrip /\ [][NextStrip]_vars

(***************************************************************************)
(* Concurrent requests: the handlers interleave at their awaits             *)
(***************************************************************************)

\* How many requests are in flight together.
MaxRequests == 2

ConcReqs == 1..MaxRequests

ConcEnvs ==
  { [GEMINI_API_KEY |-> Undefined, GOOGLE_API_KEY |-> Undefined], StripEnv }

ConcBodies == {NoBody, StripBody}

\* One reply per path of the handler: 200, parse error, parsed.length on
\* null, error reply, blocked reply without candidates.
ConcReplies ==
  { CleanReply(<<"[", "]">>), CleanReply(NotJson), CleanReply(<<"n", "u", "l", "l">>),
    Reply([present |-> TRUE, message |-> Undefined],
          [present |-> FALSE, list |-> <<>>], NoFeedback),
    Reply(NoError, [present |-> FALSE, list |-> <<>>],
          [present |-> TRUE, blockReason |-> <<"SAFETY">>]) }

InitConc ==
  /\ env \in ConcEnvs
  /\ pc = [r \in ConcReqs |-> "idle"]
  /\ reqBody = [r \in ConcReqs |-> NoBody]
  /\ upstreamCalls = [r \in ConcReqs |-> <<>>]
  /\ upstreamStatus = [r \in ConcReqs |-> <<>>]
  /\ upstreamJson = [r \in ConcReqs |-> <<>>]
  /\ fetchError = [r \in ConcReqs |-> Undefined]
  /\ cleaned = [r \in ConcReqs |-> Undefined]
  /\ responses = [r \in ConcReqs |-> <<>>]

NextConc ==
  \E r \in ConcReqs :
    \/ \E body \in ConcBodies : Receive(r, body)
    \/ \E reason \in FetchFailureReasons : FetchRejects(r, reason)
    \/ \E status \in UpstreamStatuses : FetchResolves(r, status)
    \/ \E json \in ConcReplies : JsonResolves(r, json)
    \/ \E version \in NodeFetchVersions : JsonRejects(r, version)

SpecConc == InitConc /\ [][NextConc]_vars

(***************************************************************************)
(* Vocabulary of the properties                                            *)
(***************************************************************************)

\* needle occurs in hay as a run of consecutive elements
Contains(hay, needle) ==
  \E i \in 1..(Len(hay) - Len(needle) + 1) : MatchAt(hay, i, needle)

OrEmpty(s) == IF s = Undefined THEN <<>> ELSE s

\* Everything the client reads in a response body.
BodyText(resp) ==
  IF resp.kind = "value" THEN JSONstringify(resp.value)
  ELSE resp.error \o OrEmpty(resp.raw) \o OrEmpty(resp.note)

Received(r) == pc[r] /= "idle"
Answered(r) == pc[r] = "done"
Replied(r) == upstreamJson[r] /= <<>>
GeneratedText(json) == json.candidates.list[1].text

\* The reply is no error reply, has a first candidate with text, and reports
\* neither a block nor a filtered candidate.
UpstreamSucceeded(json) ==
  /\ ~json.error.present
  /\ json.candidates.present
  /\ json.candidates.list /= <<>>
  /\ ~(json.promptFeedback.present /\ Truthy(json.promptFeedback.blockReason))
  /\ json.candidates.list[1].finishReason \notin {"SAFETY", "RECITATION"}
  /\ GeneratedText(json) /= Undefined

\* A request with imageData, under a configured credential.
ValidSubmission(r) ==
  Received(r) /\ Truthy(reqBody[r].imageData) /\ Truthy(API_KEY(env))

\* The upstream call of a valid submission came back with a success status
\* and a reply that succeeded.
CallSucceeded(r) ==
  /\ ValidSubmission(r)
  /\ Answered(r) /\ Replied(r)
  /\ upstreamStatus[r][1] \in SuccessStatuses
  /\ UpstreamSucceeded(upstreamJson[r][1])

(***************************************************************************)
(* C1: a request without imageData (absent or empty) is answered with a    *)
(* 400-class error and causes no upstream call, whatever the credential    *)
(* configuration.                                                          *)
(***************************************************************************)
C1_MissingImageRejected ==
  \A r \in Reqs :
    (Received(r) /\ ~Truthy(reqBody[r].imageData)) =>
      /\ upstreamCalls[r] = <<>>
      /\ Answered(r)
      /\ Len(responses[r]) = 1
      /\ responses[r][1].status \in 400..499

(***************************************************************************)
(* C2: with neither GEMINI_API_KEY nor GOOGLE_API_KEY set, the request is  *)
(* answered 500 with the configuration error, no upstream call is made,    *)
(* and the body contains no credential value.                              *)
(***************************************************************************)
C2_MissingKeyConfigError ==
  \A r \in Reqs :
    (Received(r) /\ ~Truthy(env.GEMINI_API_KEY) /\ ~Truthy(env.GOOGLE_API_KEY)) =>
      /\ upstreamCalls[r] = <<>>
      /\ Answered(r)
      /\ Len(responses[r]) = 1
      /\ responses[r][1].status = 500
      /\ responses[r][1].kind = "error"
      /\ responses[r][1].error = MissingKeyMessage
      /\ \A k \in KeyValues : ~Contains(BodyText(responses[r][1]), k)

C2_Witness ==
  \E r \in Reqs :
    /\ Answered(r)
    /\ env.GEMINI_API_KEY = <<>>
    /\ env.GOOGLE_API_KEY = Undefined
    /\ Truthy(reqBody[r].imageData)
    /\ responses[r] /= <<>>

(***************************************************************************)
(* C3: when the upstream call succeeds and the generated text, fences      *)
(* stripped and trimmed, is no valid JSON, the response is 400 and carries *)
(* the cleaned text in raw; the text "not json", bare or fenced, comes     *)
(* back as raw "not json".                                                 *)
(***************************************************************************)
C3_ParseErrorCarriesRaw ==
  \A r \in Reqs :
    (Answered(r) /\ Replied(r) /\ UpstreamSucceeded(upstreamJson[r][1])) =>
      LET text == GeneratedText(upstreamJson[r][1])
          clean == cleanJson(rawText(text))
      IN  /\ ~JSONparse(clean).ok =>
               /\ Len(responses[r]) = 1
               /\ responses[r][1].status = 400
               /\ responses[r][1].kind = "error"
               /\ responses[r][1].raw = clean
          /\ text \in {NotJson, Wrap("jsonfence", NotJson)} =>
               /\ responses[r][1].status = 400
               /\ responses[r][1].raw = NotJson

C3_Witness ==
  \E r \in Reqs :
    /\ CallSucceeded(r)
    /\ GeneratedText(upstreamJson[r][1]) = Wrap("jsonfence", NotJson)
    /\ responses[r][1].status = 400

(***************************************************************************)
(* C4: for a request with imageData and a configured credential, when the  *)
(* upstream call succeeds and the generated text is the text of a JSON     *)
(* array, bare or wrapped in fences or white space, the response is 200    *)
(* and its body is that array: same elements, same order.                  *)
(***************************************************************************)
C4_ArrayReturnedVerbatim ==
  \A r \in Reqs :
    CallSucceeded(r) =>
      \A w \in Wrappers : \A a \in ArraysOf(Elements) :
        GeneratedText(upstreamJson[r][1]) = Wrap(w, JSONstringify(a)) =>
          /\ Len(responses[r]) = 1
          /\ responses[r][1].status = 200
          /\ responses[r][1].kind = "value"
          /\ responses[r][1].value = a

(***************************************************************************)
(* C5: a reply that carries promptFeedback.blockReason, with or without a  *)
(* candidates list, is answered with an error whose message contains the   *)
(* block reason (stated for requests with imageData).                      *)
(***************************************************************************)
C5_BlockReasonReported ==
  \A r \in Reqs :
    (ValidSubmission(r) /\ Answered(r) /\ Replied(r)
       /\ upstreamJson[r][1].promptFeedback.present
       /\ Truthy(upstreamJson[r][1].promptFeedback.blockReason)) =>
      /\ Len(responses[r]) = 1
      /\ responses[r][1].kind = "error"
      /\ Contains(responses[r][1].error, upstreamJson[r][1].promptFeedback.blockReason)

(***************************************************************************)
(* C6: a transport failure or a non-success upstream status is answered    *)
(* 500 with a message that carries the upstream status code and the        *)
(* upstream message; a non-success status never yields a 200 (stated for   *)
(* requests with imageData).                                               *)
(***************************************************************************)
C6_UpstreamFailureReported ==
  \A r \in Reqs :
    /\ (ValidSubmission(r) /\ Answered(r) /\ fetchError[r] /= Undefined) =>
         /\ responses[r][1].status = 500
         /\ responses[r][1].error = fetchError[r]
    /\ (ValidSubmission(r) /\ Answered(r) /\ upstreamStatus[r] /= <<>>
          /\ upstreamStatus[r][1] \notin SuccessStatuses) =>
         /\ responses[r][1].status = 500
         /\ Contains(responses[r][1].error, upstreamStatus[r])
         /\ (Replied(r) /\ Truthy(upstreamJson[r][1].error.message)) =>
              Contains(responses[r][1].error, upstreamJson[r][1].error.message)

(***************************************************************************)
(* C7: no response body contains the configured credential value (stated   *)
(* for requests with imageData).                                           *)
(***************************************************************************)
C7_NoCredentialInBody ==
  \A r \in Reqs :
    \A i \in 1..Len(responses[r]) :
      ValidSubmission(r) => ~Contains(BodyText(responses[r][i]), API_KEY(env))

(***************************************************************************)
(* C8: every 200 response carries a JSON array as its body (stated for     *)
(* requests with imageData).                                               *)
(***************************************************************************)
C8_SuccessBodyIsArray ==
  \A r \in Reqs :
    \A i \in 1..Len(responses[r]) :
      (ValidSubmission(r) /\ responses[r][i].status = 200) =>
        responses[r][i].kind = "value" /\ responses[r][i].value.t = "array"

(***************************************************************************)
(* C9: fence stripping (remove every json fence, then every fence, then    *)
(* trim) is idempotent: stripping what the handler has stripped, or        *)
(* stripping the generated text twice, gives what stripping once gives.    *)
(***************************************************************************)
C9_StripIdempotent ==
  \A r \in Reqs :
    cleaned[r] /= Undefined =>
      /\ cleanJson(cleaned[r]) = cleaned[r]
      /\ LET text == GeneratedText(upstreamJson[r][1])
         IN  cleanJson(cleanJson(text)) = cleanJson(text)

\* Removing the json fence joins two backquotes, one backquote and "json"
\* into a new json fence.
C9_Witness ==
  \E r \in Reqs :
    /\ Replied(r)
    /\ GeneratedText(upstreamJson[r][1])
         = <<BQ, BQ>> \o FenceJson \o <<BQ, "j", "s", "o", "n">>
    /\ cleaned[r] = <<"j", "s", "o", "n">>

(***************************************************************************)
(* C10: a request causes at most one upstream call; after a failure        *)
(* (transport failure, error reply, blocked or filtered content, parse     *)
(* error) it is answered with an error response, and an answered request   *)
(* calls the upstream no more.                                             *)
(***************************************************************************)
Failed(r) ==
  \/ fetchError[r] /= Undefined
  \/ /\ Replied(r)
     /\ \/ ~UpstreamSucceeded(upstreamJson[r][1])
        \/ ~JSONparse(cleaned[r]).ok

C10_AtMostOneCall ==
  /\ [](\A r \in Reqs :
          /\ Len(upstreamCalls[r]) <= 1
          /\ Failed(r) =>
               /\ Answered(r)
               /\ Len(responses[r]) = 1
               /\ responses[r][1].status >= 400
               /\ responses[r][1].kind = "error")
  /\ [][\A r \in Reqs : Answered(r) => upstreamCalls'[r] = upstreamCalls[r]]_vars

C10_Witness ==
  \E r \in Reqs :
    /\ Answered(r)
    /\ fetchError[r] /= Undefined
    /\ upstreamStatus[r] = <<>>
    /\ Len(upstreamCalls[r]) = 1

(***************************************************************************)
(* C11: under any interleaving of concurrent requests, a request whose     *)
(* upstream call has completed (reply or failure) or was never attempted   *)
(* has exactly one response, never none and never two; a 400 parse error   *)
(* is never followed by a 500; two requests with the same body and the     *)
(* same upstream outcome under the one configuration get the same          *)
(* response; and a request's responses change only in its own handler's    *)
(* final step.                                                             *)
(***************************************************************************)
Settled(r) ==
  /\ Received(r)
  /\ \/ upstreamCalls[r] = <<>>
     \/ fetchError[r] /= Undefined
     \/ Replied(r)

SameOutcome(r1, r2) ==
  /\ reqBody[r1] = reqBody[r2]
  /\ upstreamStatus[r1] = upstreamStatus[r2]
  /\ upstreamJson[r1] = upstreamJson[r2]
  /\ fetchError[r1] = fetchError[r2]

C11_ExactlyOneResponse ==
  /\ [](\A r \in DOMAIN pc :
          /\ Len(responses[r]) <= 1
          /\ Settled(r) => Answered(r) /\ Len(responses[r]) = 1
          /\ ~Settled(r) => responses[r] = <<>>
          /\ \A i \in 1..Len(responses[r]) : \A j \in 1..Len(responses[r]) :
               (i < j /\ responses[r][i].status = 400) => responses[r][j].status /= 500)
  /\ [](\A r1 \in DOMAIN pc : \A r2 \in DOMAIN pc :
          (Settled(r1) /\ Settled(r2) /\ SameOutcome(r1, r2)) =>
            responses[r1] = responses[r2])
  /\ [][\A r \in DOMAIN pc :
          responses'[r] /= responses[r] => (~Answered(r) /\ Answered(r)')]_vars

\* One request has its 400 parse error while the other, received before,
\* still waits for its reply.
C11_Witness ==
  \E r1 \in DOMAIN pc : \E r2 \in DOMAIN pc :
    /\ r1 /= r2
    /\ Answered(r1) /\ Replied(r1)
    /\ Len(responses[r1]) = 1
    /\ responses[r1][1].status = 400
    /\ pc[r2] = "json"

====
